---- MODULE Spec2Model ----
(***************************************************************************)
(* Model of the turn orchestration engine of MCP-2Agent                    *)
(* (src/orchestrator.py, src/common.py, src/app.py, src/servers.py).       *)
(*                                                                         *)
(* The persisted file state.csv is the variable store: a sequence of rows, *)
(* each a function from the column names FIELDS to strings.  Texts are     *)
(* drawn from small sets of tokens; "" is the empty text and " " a text    *)
(* that holds only whitespace.  Every request is one call of orchestrate   *)
(* made by the HTTP handler process_query; its steps are separated at the  *)
(* places where the code reads or writes the file or waits for a remote    *)
(* service.                                                                *)
(***************************************************************************)
EXTENDS Integers, Sequences, FiniteSets, TLC

VARIABLES store, pc, loc, obs, started, call

vars == <<store, pc, loc, obs, started, call>>

(***************************************************************************)
(* Bounds of the model.                                                    *)
(***************************************************************************)
\* Largest number of rows the file may hold before new requests stop.
MaxTurns == 2
\* Number of request-handling threads of the server.
NumProcs == 2
\* Number of requests the threads handle in the concurrent runs.
MaxRequests == 2
\* Largest number of rows of the files the selection runs start from.
MaxSelTurns == 5
\* Longest list of stage names a planner response holds.
MaxPlanLen == 2
\* Largest turn number that the decimal conversion covers.
MaxInt == 12
\* Largest word count of a text whose confidence is computed on its own.
MaxWords == 400
\* How often a function is applied to the same input.
MaxCalls == 2

Procs == 1..NumProcs

(***************************************************************************)
(* Program constants.                                                      *)
(***************************************************************************)
FIELDS ==
  {"query", "turn", "search_results", "search_confidence", "summary",
   "summary_confidence", "reviewed_summary", "review_confidence",
   "insights", "insights_confidence"}

\* execute_summarize: sorted_rows[-3:]
LastN == 3
\* execute_summarize: content[:200] + "..."
TruncateAt == 200
\* confidence_from_text: max(0.4, ...), min(0.95, ...), length / 200
MinConfidence == 40
MaxConfidence == 95
WordsPerUnit == 200
\* generate_conversation_response: the two fixed confidences
AdvisoryConfidence == 100
ErrorConfidence == 50

ADVISORY == "I don't have any previous conversation history to reference."
CONV_ERROR == "I encountered an error while processing your question"

(***************************************************************************)
(* Inputs of the model.                                                    *)
(***************************************************************************)
Queries == {"q1", "q2"}
\* The intent argument of a request: a label, or absent ("None").
IntentArgs == {"search", "summarize", "conversation_query", "None"}
\* Texts the retrieval service returns (joined snippets).
SearchTexts == {"", " ", "r1"}
\* Texts the condensation service returns.
SummaryTexts == {"", "s1"}
\* Stripped answers of the completion service to a conversation query.
AnswerTexts == {"a1"}
\* Names a planner response may hold.
PlanTokens == {"search", "summarize", "review"}
\* Texts the completion service may answer to the intent prompt.
IntentReplies ==
  {"Search", "SUMMARIZE", "conversation_query", "Summarize the search",
   "conversation_query or summarize", "Conversation_Query about a search",
   "research", "I am not sure", " ", ""}
\* Intent values plan_execution_stages may be called with.
PlanIntents == {"search", "summarize", "conversation_query", "analyze"}

(***************************************************************************)
(* Strings: the model's texts with the properties the code reads.          *)
(***************************************************************************)
\* str.strip()
Strip(t) == IF t = " " THEN "" ELSE t

\* len(text.split())
WordCount(t) ==
  CASE t = "" -> 0
    [] t = " " -> 0
    [] t = "r1" -> 120
    [] t = "s1" -> 30
    [] t = "a1" -> 250
    [] OTHER -> 10

\* len(content)
CharLen(t) ==
  CASE t = "" -> 0
    [] t = " " -> 1
    [] t = "r1" -> 700
    [] t = "s1" -> 180
    [] t = "a1" -> 1500
    [] OTHER -> 60

\* str.lower()
Lower(t) ==
  CASE t = "Search" -> "search"
    [] t = "SUMMARIZE" -> "summarize"
    [] t = "Summarize the search" -> "summarize the search"
    [] t = "Conversation_Query about a search" -> "conversation_query about a search"
    [] t = "I am not sure" -> "i am not sure"
    [] OTHER -> t

\* label in text: whether label is a substring of text
Occurs(label, text) ==
  label \in (CASE text = "search" -> {"search"}
               [] text = "research" -> {"search"}
               [] text = "summarize" -> {"summarize"}
               [] text = "conversation_query" -> {"conversation_query"}
               [] text = "summarize the search" -> {"search", "summarize"}
               [] text = "conversation_query or summarize" ->
                    {"summarize", "conversation_query"}
               [] text = "conversation_query about a search" ->
                    {"search", "conversation_query"}
               [] OTHER -> {})

Digits == <<"0", "1", "2", "3", "4", "5", "6", "7", "8", "9">>

\* str(n) of a non-negative integer
StrInt(n) ==
  IF n < 10 THEN Digits[n + 1]
  ELSE Digits[(n \div 10) + 1] \o Digits[(n % 10) + 1]

\* str.isdigit() after strip
IsDigit(s) == \E n \in 0..MaxInt : StrInt(n) = s

\* int(s)
IntOf(s) == CHOOSE n \in 0..MaxInt : StrInt(n) = s

\* str(x) of a float given in hundredths, 0.0 <= x <= 1.0
StrFloat(c) ==
  IF c = 100 THEN "1.0"
  ELSE "0." \o Digits[(c \div 10) + 1]
            \o (IF c % 10 = 0 THEN "" ELSE Digits[(c % 10) + 1])


(***************************************************************************)
(* common.py: confidence_from_text.  Confidences are held in hundredths.   *)
(***************************************************************************)
\* Odd word counts n for which the binary float n / 200 lies below the
\* decimal midpoint, so that round(n / 200, 2) goes down.
RoundsDown ==
  {83, 85, 87, 95, 97, 99, 113, 115, 117, 119, 121, 123, 125, 139, 141, 143,
   145, 147, 149, 163, 165, 167, 169, 171, 173, 189}

\* Mutant of ConfidenceOfCount: the cap min(0.95, ...) is missing.
ConfidenceOfCount_NoCap(length) ==
  IF 100 * length <= MinConfidence * WordsPerUnit THEN MinConfidence
  ELSE IF (100 * length) % WordsPerUnit = 0 THEN (100 * length) \div WordsPerUnit
  ELSE ((100 * length) \div WordsPerUnit) + 1

\* round(min(0.95, max(0.4, length / 200)), 2) for a word count
ConfidenceOfCount(length) ==
  IF 100 * length <= MinConfidence * WordsPerUnit THEN MinConfidence
  ELSE IF 100 * length >= MaxConfidence * WordsPerUnit THEN MaxConfidence
  ELSE IF (100 * length) % WordsPerUnit = 0 THEN (100 * length) \div WordsPerUnit
  ELSE IF length \in RoundsDown THEN (100 * length) \div WordsPerUnit
  ELSE ((100 * length) \div WordsPerUnit) + 1

confidence_from_text(text) == ConfidenceOfCount(WordCount(text))

(***************************************************************************)
(* servers.py: what the two tool services answer for a text they produced. *)
(***************************************************************************)
ToolResult(text) == [text |-> text, confidence |-> confidence_from_text(text)]

\* Outcome of a remote call: the service's result, or a failure raised by
\* call_mcp (HTTP error status or an "error" member in the response).
SearchOutcomes ==
  {[ok |-> TRUE, result |-> ToolResult(t)] : t \in SearchTexts}
    \cup {[ok |-> FALSE, result |-> ToolResult("")]}

SummaryOutcomes ==
  {[ok |-> TRUE, result |-> ToolResult(t)] : t \in SummaryTexts}
    \cup {[ok |-> FALSE, result |-> ToolResult("")]}

(***************************************************************************)
(* Rows.                                                                   *)
(***************************************************************************)
\* Mutant of BlankRow: a new row starts with a legacy review in it.
BlankRow_Reviewed ==
  [k \in FIELDS |-> IF k = "reviewed_summary" THEN "s1" ELSE ""]

\* dict.fromkeys(FIELDS, "")
BlankRow == [k \in FIELDS |-> ""]

\* row[key] = value, for a key the row may not hold yet
SetKey(row, key, value) == (key :> value) @@ row

\* Python truthiness of a string
Truthy(t) == t # ""

\* Mutant of next_state: the test of search_results is missing.
next_state_NoSearchTest(row) ==
  IF ~Truthy(row["summary"]) THEN "SEARCHED"
  ELSE IF ~Truthy(row["reviewed_summary"]) THEN "SUMMARIZED"
  ELSE IF ~Truthy(row["insights"]) THEN "REVIEWED"
  ELSE "INSIGHTED"

\* common.py: next_state, the classification of a row
next_state(row) ==
  IF ~Truthy(row["search_results"]) THEN "INIT"
  ELSE IF ~Truthy(row["summary"]) THEN "SEARCHED"
  ELSE IF ~Truthy(row["reviewed_summary"]) THEN "SUMMARIZED"
  ELSE IF ~Truthy(row["insights"]) THEN "REVIEWED"
  ELSE "INSIGHTED"

\* load_rows: the rows of the file as csv.DictReader gives them
load_rows(file) == file

\* Mutant of FilterRow: every key of the row is written.
FilterRow_AllKeys(row) == row

\* save_rows: only the columns of FIELDS are written
FilterRow(row) == [k \in FIELDS |-> row[k]]

save_rows(rows) == [i \in 1..Len(rows) |-> FilterRow(rows[i])]

\* max([int(r["turn"]) for r in rows if r["turn"].strip().isdigit()], default=0) + 1
MaxTurnOf(rows) ==
  LET nums == {IntOf(Strip(rows[i]["turn"])) :
                 i \in {j \in 1..Len(rows) : IsDigit(Strip(rows[j]["turn"]))}}
  IN IF nums = {} THEN 0 ELSE CHOOSE m \in nums : \A n \in nums : n <= m

NextTurn(rows) == MaxTurnOf(rows) + 1

\* Mutant of SortedIdx: the rows are left in the order of the file.
SortedIdx_FileOrder(rows, idxs, reverse) ==
  [k \in 1..Cardinality(idxs) |->
     CHOOSE i \in idxs : Cardinality({j \in idxs : j < i}) = k - 1]

\* Indices of rows in the order of sorted(..., key=int(turn)): a stable sort,
\* ascending, or descending with reverse=True (ties keep the file order).
SortedIdx(rows, idxs, reverse) ==
  LET key(i) == IntOf(rows[i]["turn"])
      Before(j, i) ==
        \/ (IF reverse THEN key(j) > key(i) ELSE key(j) < key(i))
        \/ key(j) = key(i) /\ j < i
      Rank(i) == Cardinality({j \in idxs : Before(j, i)}) + 1
  IN [k \in 1..Cardinality(idxs) |-> CHOOSE i \in idxs : Rank(i) = k]

\* Mutant of ArgMaxTurn: the first matching row of the file is taken.
ArgMaxTurn_First(rows, idxs) == CHOOSE i \in idxs : \A j \in idxs : i <= j

\* max(rows, key=int(turn)): the first row with the highest turn number
ArgMaxTurn(rows, idxs) == SortedIdx(rows, idxs, TRUE)[1]


(***************************************************************************)
(* orchestrator.py: the completion-service steps.                          *)
(***************************************************************************)
\* What the completion service may answer to the intent prompt: a failed
\* call, or a text.
IntentOutcomes ==
  {[ok |-> FALSE, text |-> ""]} \cup {[ok |-> TRUE, text |-> t] : t \in IntentReplies}

\* Mutant of Normalized: the text is matched in the case it came in.
Normalized_CaseKept(text) == Strip(text)

\* text = response.choices[0].message.content.strip().lower()
Normalized(text) == Lower(Strip(text))

\* valid_intents, in the order of the list
valid_intents == <<"search", "summarize", "conversation_query">>

\* detect_intent_with_llm: the first label of valid_intents found in the text
detect_intent_with_llm(o) ==
  IF ~o.ok THEN "search"
  ELSE LET text == Normalized(o.text)
           found == {k \in 1..Len(valid_intents) : Occurs(valid_intents[k], text)}
       IN IF found = {} THEN "search"
          ELSE valid_intents[CHOOSE k \in found : \A j \in found : k <= j]

\* Lists of at most n names
RECURSIVE SeqsUpTo(_, _)
SeqsUpTo(S, n) ==
  IF n = 0 THEN {<<>>}
  ELSE LET shorter == SeqsUpTo(S, n - 1)
       IN shorter \cup {Append(q, x) : q \in shorter, x \in S}

\* What the completion service may answer to the planning prompt: a failed
\* call or a text json.loads rejects (ok = FALSE), or a parsed list.
PlannerOutcomes ==
  {[ok |-> FALSE, stages |-> <<>>]}
    \cup {[ok |-> TRUE, stages |-> q] : q \in SeqsUpTo(PlanTokens, MaxPlanLen)}

\* Mutant of FallbackPlan: the fallback is [search] whatever the intent.
FallbackPlan_AlwaysSearch(intent) == <<"search">>

\* The fallback of plan_execution_stages
FallbackPlan(intent) ==
  IF intent = "search" THEN <<"search">>
  ELSE IF intent = "summarize" THEN <<"summarize">>
  ELSE <<"search">>

IsValidStage(s) == s \in {"search", "summarize"}

\* Mutant of plan_execution_stages: only the first valid stage is kept.
plan_execution_stages_FirstOnly(intent, o) ==
  IF ~o.ok THEN FallbackPlan(intent)
  ELSE LET stages == SelectSeq(o.stages, IsValidStage)
       IN IF stages = <<>> THEN FallbackPlan(intent) ELSE <<stages[1]>>

\* plan_execution_stages
plan_execution_stages(intent, o) ==
  IF ~o.ok THEN FallbackPlan(intent)
  ELSE LET stages == SelectSeq(o.stages, IsValidStage)
       IN IF stages = <<>> THEN FallbackPlan(intent) ELSE stages

\* What the completion service may answer to a conversation query.
AnswerOutcomes ==
  {[ok |-> TRUE, text |-> t] : t \in AnswerTexts} \cup {[ok |-> FALSE, text |-> ""]}

\* rows[-5:] if len(rows) > 5 else rows
History(rows) ==
  IF Len(rows) > 5 THEN SubSeq(rows, Len(rows) - 4, Len(rows)) ELSE rows

\* Mutant of generate_conversation_response: the error text is scored by
\* confidence_from_text like an answer.
generate_conversation_response_ErrorScored(history, o) ==
  IF Len(history) = 0
    THEN [text |-> ADVISORY, confidence |-> AdvisoryConfidence]
  ELSE IF o.ok
    THEN [text |-> o.text, confidence |-> confidence_from_text(o.text)]
  ELSE [text |-> CONV_ERROR, confidence |-> confidence_from_text(CONV_ERROR)]

\* generate_conversation_response
generate_conversation_response(history, o) ==
  IF Len(history) = 0
    THEN [text |-> ADVISORY, confidence |-> AdvisoryConfidence]
  ELSE IF o.ok
    THEN [text |-> o.text, confidence |-> confidence_from_text(o.text)]
  ELSE [text |-> CONV_ERROR, confidence |-> ErrorConfidence]

(***************************************************************************)
(* orchestrator.py: turn identity.                                         *)
(***************************************************************************)
\* Mutant of HasContext: no row counts as context to continue.
HasContext_Never(r) == FALSE

\* rows_with_context of get_or_create_row
HasContext(r) == Strip(r["search_results"]) # ""

RowsWithContext(rows) == {i \in 1..Len(rows) : HasContext(rows[i])}

MatchingRows(rows, query) == {i \in 1..Len(rows) : rows[i]["query"] = query}

\* Mutant of NewTurnNumber: the increment is forgotten.
NewTurnNumber_NoIncrement(rows) == MaxTurnOf(rows)

\* The turn number a new turn gets
NewTurnNumber(rows) == NextTurn(rows)

\* Mutant of get_or_create_row: the copy of the turn to continue keeps the
\* query of that turn.
get_or_create_row_KeepQuery(rows, query, intent) ==
  IF intent = "summarize" /\ RowsWithContext(rows) # {}
    THEN [row |-> rows[SortedIdx(rows, RowsWithContext(rows), TRUE)[1]],
          alias |-> 0, created |-> FALSE]
  ELSE IF MatchingRows(rows, query) # {}
    THEN LET latest == ArgMaxTurn(rows, MatchingRows(rows, query))
         IN [row |-> rows[latest], alias |-> latest, created |-> FALSE]
  ELSE [row |-> [BlankRow EXCEPT !["query"] = query,
                                 !["turn"] = StrInt(NewTurnNumber(rows))],
        alias |-> 0, created |-> TRUE]

\* get_or_create_row: the row, and alias, the index in rows of the list
\* element that the returned row is (0 when it is a copy or a new dict).
get_or_create_row(rows, query, intent) ==
  IF intent = "summarize" /\ RowsWithContext(rows) # {}
    THEN LET latest_n == SubSeq(SortedIdx(rows, RowsWithContext(rows), TRUE), 1,
                                IF Cardinality(RowsWithContext(rows)) < LastN
                                  THEN Cardinality(RowsWithContext(rows)) ELSE LastN)
         IN [row |-> [rows[latest_n[1]] EXCEPT !["query"] = query],
             alias |-> 0, created |-> FALSE]
  ELSE IF MatchingRows(rows, query) # {}
    THEN LET latest == ArgMaxTurn(rows, MatchingRows(rows, query))
         IN [row |-> rows[latest], alias |-> latest, created |-> FALSE]
  ELSE [row |-> [BlankRow EXCEPT !["query"] = query,
                                 !["turn"] = StrInt(NewTurnNumber(rows))],
        alias |-> 0, created |-> TRUE]

(***************************************************************************)
(* orchestrator.py: the stage executors.                                   *)
(***************************************************************************)
\* Mutant of SearchSkips: the early return is missing.
SearchSkips_Never(row) == FALSE

\* if row.get("search_results"): return row
SearchSkips(row) == Truthy(row["search_results"])

\* execute_search, given the service's result
execute_search(row, r) ==
  IF SearchSkips(row) THEN row
  ELSE [row EXCEPT !["search_results"] = r.text,
                   !["search_confidence"] = StrFloat(r.confidence)]

\* Mutant of SummarizeSkips: the early return is missing.
SummarizeSkips_Never(row) == FALSE

\* if row.get("summary"): return row
SummarizeSkips(row) == Truthy(row["summary"])

\* Mutant of HasContent: every persisted row counts as an agent response.
HasContent_Any(r) == TRUE

\* rows_with_content of execute_summarize
HasContent(r) == Strip(r["search_results"]) # "" \/ Strip(r["summary"]) # ""

RowsWithContent(rows) == {i \in 1..Len(rows) : HasContent(rows[i])}

\* Mutant of LastRows: the slice takes the oldest rows, sorted_rows[:3].
LastRows_Oldest(rows) ==
  LET sorted_rows == SortedIdx(rows, RowsWithContent(rows), FALSE)
      n == Len(sorted_rows)
  IN IF n > LastN THEN SubSeq(sorted_rows, 1, LastN) ELSE sorted_rows

\* sorted(rows_with_content, key=int(turn))[-3:], as indices into rows
LastRows(rows) ==
  LET sorted_rows == SortedIdx(rows, RowsWithContent(rows), FALSE)
      n == Len(sorted_rows)
  IN IF n > LastN THEN SubSeq(sorted_rows, n - LastN + 1, n) ELSE sorted_rows

\* r.get("summary", "") or r.get("search_results", "")
ContentOf(r) == IF Truthy(r["summary"]) THEN r["summary"] ELSE r["search_results"]

\* content[:200] + "..." if len(content) > 200 else content
Truncated(content) ==
  IF CharLen(content) > TruncateAt THEN content \o "[:200]..." ELSE content

\* messages_to_summarize
MessagesToSummarize(rows) ==
  LET last == LastRows(rows)
  IN [k \in 1..Len(last) |->
        [query |-> rows[last[k]]["query"],
         summary |-> Truncated(ContentOf(rows[last[k]])),
         turn |-> rows[last[k]]["turn"]]]

\* combined_text: the texts labelled "Response i: " in selection order
CombinedText(rows) ==
  LET last == LastRows(rows)
  IN [k \in 1..Len(last) |-> [label |-> k, text |-> ContentOf(rows[last[k]])]]

\* execute_summarize past its two early exits, given the service's result
execute_summarize(row, rows, r) ==
  [SetKey(row, "_summarizing_messages", MessagesToSummarize(rows))
     EXCEPT !["summary"] = r.text,
            !["summary_confidence"] = StrFloat(r.confidence)]

(***************************************************************************)
(* orchestrator.py: merging the turn into the rows.                        *)
(***************************************************************************)
\* The first index whose row has the turn of row, or 0
MergeIndex(rows, row) ==
  LET hits == {i \in 1..Len(rows) : rows[i]["turn"] = row["turn"]}
  IN IF hits = {} THEN 0 ELSE CHOOSE i \in hits : \A j \in hits : i <= j

\* Mutant of Merge: the turn is appended without a look for its number.
Merge_AlwaysAppend(rows, row) == Append(rows, row)

\* rows[i] = row at the first match, else rows.append(row)
Merge(rows, row) ==
  IF MergeIndex(rows, row) = 0 THEN Append(rows, row)
  ELSE [rows EXCEPT ![MergeIndex(rows, row)] = row]


(***************************************************************************)
(* State.                                                                  *)
(*   store  the rows of state.csv                                          *)
(*   pc     where each request thread stands                               *)
(*   loc    the local variables of orchestrate in each thread              *)
(*   obs    what each thread's current request has done so far: the file   *)
(*          as it was when the request began, and counts of its remote     *)
(*          calls (failed_calls: those that raised), loads and saves       *)
(*   started  the number of requests begun (counted in the concurrent      *)
(*          runs only, where it bounds them)                               *)
(*   call   the last call of the completion service made by the request of *)
(*          thread 1 with the response it got (kept in the recording runs  *)
(*          only), or the input and result of a function applied on its    *)
(*          own                                                            *)
(***************************************************************************)
IdleLoc ==
  [query |-> "", intent |-> "", rows |-> <<>>, row |-> BlankRow, alias |-> 0,
   planned_stages |-> <<>>, executed_stages |-> <<>>, stage |-> 0,
   summarizing_messages |-> <<>>, error |-> ""]

\* A response of the completion service, in one shape for all its uses
NoResponse == [ok |-> TRUE, text |-> "", stages |-> <<>>]

Response(o) == o @@ NoResponse

\* No call on record
NoCall ==
  [recording |-> FALSE, fn |-> "", intent |-> "", length |-> 0,
   response |-> NoResponse, count |-> 0,
   intent_out |-> "", plan_out |-> <<>>, confidence_out |-> 0]

\* The record of a call of fn that got the response o, kept when the run
\* records the calls of the completion service
Recorded(fn, intent, o) ==
  IF call.recording
    THEN [NoCall EXCEPT !.recording = TRUE, !.fn = fn, !.intent = intent,
                        !.response = Response(o), !.count = 1]
    ELSE call

IdleObs ==
  [before |-> <<>>, created |-> FALSE, plan_calls |-> 0,
   answer_calls |-> 0, search_calls |-> 0, summarize_calls |-> 0,
   failed_calls |-> 0, documents |-> <<>>, loads |-> 0, saves |-> 0]

Init ==
  /\ store = <<>>
  /\ pc = [p \in Procs |-> "idle"]
  /\ loc = [p \in Procs |-> IdleLoc]
  /\ obs = [p \in Procs |-> IdleObs]
  /\ started = 0
  /\ call = NoCall

Running(p) == pc[p] \notin {"idle", "done", "failed"}

\* What is left of a request that returned: the row handed to the caller
Returned(l, row) == [IdleLoc EXCEPT !.query = l.query, !.intent = l.intent, !.row = row]

\* Mutant of RaisedPc: the exception is swallowed and the request goes on.
RaisedPc_Swallowed == "execute"

\* Where an exception raised inside a stage executor leaves the request:
\* orchestrate has no handler, so it ends the request (process_query
\* answers with the error).
RaisedPc == "failed"

\* What is left of a request that raised: the error the caller reports
Raised(l, error) == [IdleLoc EXCEPT !.query = l.query, !.intent = l.intent, !.error = error]

\* Whether a request for (query, intent) on these rows makes a new turn
WouldCreate(rows, query, intent) ==
  intent = "conversation_query" \/ get_or_create_row(rows, query, intent).created

\* The intents a request may run with: the one given, or the one
\* detect_intent finds when none is given.
IntentsOf(arg) ==
  IF arg = "None" THEN {detect_intent_with_llm(o) : o \in IntentOutcomes} ELSE {arg}

\* One request at a time: a request that would make the file longer than
\* MaxTurns rows is not started.
SeqAllowed(query, intent) ==
  Len(store) < MaxTurns \/ ~WouldCreate(store, query, intent)

\* Interleaved requests: at most MaxRequests are started.
ConcAllowed == started < MaxRequests

\* process_query / orchestrate up to the branch on the intent: the first
\* load_rows and, when no intent is given, detect_intent.
Begin(p, interleaved) ==
  /\ ~Running(p)
  /\ \E query \in Queries, arg \in IntentArgs :
       \E intent \in IntentsOf(arg) :
          /\ IF interleaved THEN ConcAllowed ELSE SeqAllowed(query, intent)
          /\ loc' = [loc EXCEPT ![p] = [IdleLoc EXCEPT !.query = query,
                                                       !.intent = intent,
                                                       !.rows = load_rows(store)]]
          /\ obs' = [obs EXCEPT ![p] = [IdleObs EXCEPT !.before = store,
                                                       !.loads = 1]]
          /\ pc' = [pc EXCEPT ![p] = IF intent = "conversation_query"
                                       THEN "conversation" ELSE "resolve"]
  /\ call' = [NoCall EXCEPT !.recording = call.recording]
  /\ UNCHANGED store

\* Mutant of ConversationRow: a turn with the same query text is taken
\* over (its turn number is used again).
ConversationRow_Reuse(rows, query, response) ==
  [BlankRow EXCEPT !["query"] = query,
                   !["turn"] = IF MatchingRows(rows, query) # {}
                                 THEN rows[ArgMaxTurn(rows, MatchingRows(rows, query))]["turn"]
                                 ELSE StrInt(NextTurn(rows)),
                   !["summary"] = response.text,
                   !["summary_confidence"] = StrFloat(response.confidence)]

\* orchestrate, the conversation_query branch: the row that is appended
ConversationRow(rows, query, response) ==
  [BlankRow EXCEPT !["query"] = query,
                   !["turn"] = StrInt(NewTurnNumber(rows)),
                   !["summary"] = response.text,
                   !["summary_confidence"] = StrFloat(response.confidence)]

\* orchestrate, the conversation_query branch: answer, append, save, return.
ConversationQuery(p) ==
  /\ pc[p] = "conversation"
  /\ \E o \in AnswerOutcomes :
       LET rows == loc[p].rows
           history == History(rows)
           response == generate_conversation_response(history, o)
           row == ConversationRow(rows, loc[p].query, response)
           returned == SetKey(SetKey(SetKey(row,
                         "_executed_stages", <<"conversation_query">>),
                         "_planned_stages", <<"conversation_query">>),
                         "_conversation_response", response.text)
       IN /\ store' = save_rows(Append(rows, row))
          /\ loc' = [loc EXCEPT ![p] = Returned(loc[p], returned)]
          /\ obs' = [obs EXCEPT ![p] = [@ EXCEPT
                       !.created = TRUE,
                       !.saves = @ + 1,
                       !.answer_calls = IF Len(history) = 0 THEN 0 ELSE 1]]
          /\ call' = IF Len(history) = 0 THEN call
                     ELSE Recorded("generate_conversation_response",
                                   loc[p].intent, o)
  /\ pc' = [pc EXCEPT ![p] = "done"]
  /\ UNCHANGED started

\* orchestrate: row, rows = get_or_create_row(query, intent)
GetOrCreateRow(p) ==
  /\ pc[p] = "resolve"
  /\ LET rows == load_rows(store)
         got == get_or_create_row(rows, loc[p].query, loc[p].intent)
     IN /\ loc' = [loc EXCEPT ![p] = [@ EXCEPT !.rows = rows,
                                               !.row = got.row,
                                               !.alias = got.alias]]
        /\ obs' = [obs EXCEPT ![p] = [@ EXCEPT !.loads = @ + 1,
                                               !.created = got.created]]
  /\ pc' = [pc EXCEPT ![p] = "plan"]
  /\ UNCHANGED <<store, started, call>>

\* orchestrate: planned_stages = plan_execution_stages(...)
Plan(p) ==
  /\ pc[p] = "plan"
  /\ \E o \in PlannerOutcomes :
       /\ loc' = [loc EXCEPT ![p] = [@ EXCEPT
                    !.planned_stages = plan_execution_stages(loc[p].intent, o),
                    !.stage = 1]]
       /\ call' = Recorded("plan_execution_stages", loc[p].intent, o)
  /\ obs' = [obs EXCEPT ![p] = [@ EXCEPT !.plan_calls = @ + 1]]
  /\ pc' = [pc EXCEPT ![p] = "execute"]
  /\ UNCHANGED <<store, started>>

\* The stage the loop over planned_stages is at, "" past the end
CurrentStage(p) ==
  IF loc[p].stage >= 1 /\ loc[p].stage <= Len(loc[p].planned_stages)
    THEN loc[p].planned_stages[loc[p].stage] ELSE ""

\* The rows list after the dict row was changed in place
Aliased(l, row) == IF l.alias = 0 THEN l.rows ELSE [l.rows EXCEPT ![l.alias] = row]

\* What the loop records after execute_search returned
AfterSearch(executed) == Append(executed, "search")

\* What the loop records after execute_summarize returned
AfterSummarize(executed) == Append(executed, "summary")

\* orchestrate: the loop body for stage == "search"
ExecuteSearch(p) ==
  /\ pc[p] = "execute"
  /\ CurrentStage(p) = "search"
  /\ IF SearchSkips(loc[p].row)
       THEN /\ loc' = [loc EXCEPT ![p] = [@ EXCEPT
                         !.executed_stages = AfterSearch(@),
                         !.stage = @ + 1]]
            /\ UNCHANGED <<pc, obs>>
       ELSE \E o \in SearchOutcomes :
              /\ obs' = [obs EXCEPT ![p] = [@ EXCEPT
                           !.search_calls = @ + 1,
                           !.failed_calls = IF o.ok THEN @ ELSE @ + 1]]
              /\ IF o.ok
                   THEN LET row == execute_search(loc[p].row, o.result)
                        IN /\ loc' = [loc EXCEPT ![p] = [@ EXCEPT
                                        !.row = row,
                                        !.rows = Aliased(loc[p], row),
                                        !.executed_stages = AfterSearch(@),
                                        !.stage = @ + 1]]
                           /\ UNCHANGED pc
                   ELSE /\ loc' = [loc EXCEPT ![p] = Raised(loc[p], "RemoteToolError")]
                        /\ pc' = [pc EXCEPT ![p] = RaisedPc]
  /\ UNCHANGED <<store, started, call>>

\* orchestrate: the loop body for stage == "summarize"
ExecuteSummarize(p) ==
  /\ pc[p] = "execute"
  /\ CurrentStage(p) = "summarize"
  /\ IF SummarizeSkips(loc[p].row)
       THEN /\ loc' = [loc EXCEPT ![p] = [@ EXCEPT
                         !.executed_stages = AfterSummarize(@),
                         !.summarizing_messages =
                            IF "_summarizing_messages" \in DOMAIN loc[p].row
                              THEN loc[p].row["_summarizing_messages"] ELSE <<>>,
                         !.stage = @ + 1]]
            /\ UNCHANGED <<pc, obs>>
       ELSE LET rows == load_rows(store)
            IN IF RowsWithContent(rows) = {}
                 THEN /\ loc' = [loc EXCEPT ![p] = Raised(loc[p], "NoPriorContentError")]
                      /\ obs' = [obs EXCEPT ![p] = [@ EXCEPT !.loads = @ + 1]]
                      /\ pc' = [pc EXCEPT ![p] = RaisedPc]
                 ELSE \E o \in SummaryOutcomes :
                        /\ obs' = [obs EXCEPT ![p] = [@ EXCEPT
                                     !.loads = @ + 1,
                                     !.summarize_calls = @ + 1,
                                     !.failed_calls = IF o.ok THEN @ ELSE @ + 1,
                                     !.documents = <<CombinedText(rows)>>]]
                        /\ IF o.ok
                             THEN LET row == execute_summarize(loc[p].row, rows, o.result)
                                  IN /\ loc' = [loc EXCEPT ![p] = [@ EXCEPT
                                                  !.row = row,
                                                  !.rows = Aliased(loc[p], row),
                                                  !.executed_stages = AfterSummarize(@),
                                                  !.summarizing_messages =
                                                     row["_summarizing_messages"],
                                                  !.stage = @ + 1]]
                                     /\ UNCHANGED pc
                             ELSE /\ loc' = [loc EXCEPT ![p] = Raised(loc[p], "RemoteToolError")]
                                  /\ pc' = [pc EXCEPT ![p] = RaisedPc]
  /\ UNCHANGED <<store, started, call>>

\* orchestrate after the loop: merge by turn number, save, return the row.
MergeAndSave(p) ==
  /\ pc[p] = "execute"
  /\ CurrentStage(p) = ""
  /\ LET l == loc[p]
         rows == Merge(l.rows, l.row)
         withStages == SetKey(SetKey(l.row,
                         "_executed_stages", l.executed_stages),
                         "_planned_stages", l.planned_stages)
         returned == IF l.summarizing_messages # <<>>
                       THEN SetKey(withStages, "_summarizing_messages",
                                   l.summarizing_messages)
                       ELSE withStages
     IN /\ store' = save_rows(rows)
        /\ loc' = [loc EXCEPT ![p] = Returned(l, returned)]
  /\ obs' = [obs EXCEPT ![p] = [@ EXCEPT !.saves = @ + 1]]
  /\ pc' = [pc EXCEPT ![p] = "done"]
  /\ UNCHANGED <<started, call>>

(***************************************************************************)
(* Specifications.  Spec: one thread, so the requests are processed one    *)
(* after the other.  ConcSpec: the threads of the server interleave.       *)
(***************************************************************************)
SeqBegin == Begin(1, FALSE) /\ UNCHANGED started

Next ==
  \/ SeqBegin
  \/ ConversationQuery(1)
  \/ GetOrCreateRow(1)
  \/ Plan(1)
  \/ ExecuteSearch(1)
  \/ ExecuteSummarize(1)
  \/ MergeAndSave(1)

Spec == Init /\ [][Next]_vars

ConcBegin(p) == Begin(p, TRUE) /\ started' = started + 1

ConcNext ==
  \E p \in Procs :
    \/ ConcBegin(p)
    \/ ConversationQuery(p)
    \/ GetOrCreateRow(p)
    \/ Plan(p)
    \/ ExecuteSearch(p)
    \/ ExecuteSummarize(p)
    \/ MergeAndSave(p)

ConcSpec == Init /\ [][ConcNext]_vars


(***************************************************************************)
(* SelSpec: one request on a file that earlier requests have written.  The *)
(* file is drawn from the files of at most MaxSelTurns turns, numbered in  *)
(* the order of their creation, each created by a search for a query of    *)
(* its own and of one of five shapes: no text at all, search_results of    *)
(* whitespace only, search_results only, search_results and summary, or    *)
(* (a search that found nothing, summarized later) summary only.  A        *)
(* summary needs an earlier agent response, which in these files is a row  *)
(* with search_results "r1".                                               *)
(***************************************************************************)
SelShapes ==
  {<<"", "">>, <<" ", "">>, <<"r1", "">>, <<"r1", "s1">>, <<"", "s1">>}

\* The persisted row of turn i with the texts of shape
SelRow(i, shape) ==
  [BlankRow EXCEPT
     !["query"] = "q" \o StrInt(i),
     !["turn"] = StrInt(i),
     !["search_results"] = shape[1],
     !["search_confidence"] = StrFloat(confidence_from_text(shape[1])),
     !["summary"] = shape[2],
     !["summary_confidence"] =
        IF shape[2] = "" THEN "" ELSE StrFloat(confidence_from_text(shape[2]))]

SelStores ==
  LET all == UNION {{[i \in 1..n |-> SelRow(i, f[i])] : f \in [1..n -> SelShapes]} :
                      n \in 0..MaxSelTurns}
  IN {rows \in all :
        (\E i \in 1..Len(rows) : rows[i]["summary"] # "")
          => \E j \in 1..Len(rows) : rows[j]["search_results"] = "r1"}

SelInit ==
  /\ store \in SelStores
  /\ pc = [p \in Procs |-> "idle"]
  /\ loc = [p \in Procs |-> IdleLoc]
  /\ obs = [p \in Procs |-> IdleObs]
  /\ started = 0
  /\ call = NoCall

\* The one request of a run; it asks for the query of turn 1.
SelBegin ==
  /\ started = 0
  /\ Begin(1, TRUE)
  /\ started' = 1
  /\ loc'[1].query = "q1"

SelNext ==
  \/ SelBegin
  \/ ConversationQuery(1)
  \/ GetOrCreateRow(1)
  \/ Plan(1)
  \/ ExecuteSearch(1)
  \/ ExecuteSummarize(1)
  \/ MergeAndSave(1)

SelSpec == SelInit /\ [][SelNext]_vars

(***************************************************************************)
(* CallSpec: requests processed one after the other by thread 1, at most   *)
(* MaxRequests of them, with the responses of the completion service to    *)
(* the planner and to the conversation handler kept in call.               *)
(***************************************************************************)
CallInit ==
  /\ store = <<>>
  /\ pc = [p \in Procs |-> "idle"]
  /\ loc = [p \in Procs |-> IdleLoc]
  /\ obs = [p \in Procs |-> IdleObs]
  /\ started = 0
  /\ call = [NoCall EXCEPT !.recording = TRUE]

CallBegin == Begin(1, TRUE) /\ started' = started + 1

CallNext ==
  \/ CallBegin
  \/ ConversationQuery(1)
  \/ GetOrCreateRow(1)
  \/ Plan(1)
  \/ ExecuteSearch(1)
  \/ ExecuteSummarize(1)
  \/ MergeAndSave(1)

CallSpec == CallInit /\ [][CallNext]_vars

(***************************************************************************)
(* FnSpec: the functions that read no file, each applied on its own to an  *)
(* input drawn at the start: detect_intent_with_llm to a response of the   *)
(* completion service, plan_execution_stages to an intent and a response,  *)
(* confidence_from_text to a text of a given number of words.  Each is     *)
(* applied up to MaxCalls times to the same input.                         *)
(***************************************************************************)
FnInputs ==
  {[NoCall EXCEPT !.fn = "detect_intent_with_llm", !.response = Response(o)] :
     o \in IntentOutcomes}
    \cup {[NoCall EXCEPT !.fn = "plan_execution_stages", !.intent = i,
                         !.response = Response(o)] :
            i \in PlanIntents, o \in PlannerOutcomes}
    \cup {[NoCall EXCEPT !.fn = "confidence_from_text", !.length = n] :
            n \in 0..MaxWords}

FnInit ==
  /\ store = <<>>
  /\ pc = [p \in Procs |-> "idle"]
  /\ loc = [p \in Procs |-> IdleLoc]
  /\ obs = [p \in Procs |-> IdleObs]
  /\ started = 0
  /\ call \in FnInputs

ApplyDetectIntent ==
  /\ call.fn = "detect_intent_with_llm"
  /\ call.count < MaxCalls
  /\ call' = [call EXCEPT !.count = @ + 1,
                          !.intent_out = detect_intent_with_llm(call.response)]
  /\ UNCHANGED <<store, pc, loc, obs, started>>

ApplyPlan ==
  /\ call.fn = "plan_execution_stages"
  /\ call.count < MaxCalls
  /\ call' = [call EXCEPT !.count = @ + 1,
                          !.plan_out = plan_execution_stages(call.intent, call.response)]
  /\ UNCHANGED <<store, pc, loc, obs, started>>

ApplyConfidence ==
  /\ call.fn = "confidence_from_text"
  /\ call.count < MaxCalls
  /\ call' = [call EXCEPT !.count = @ + 1,
                          !.confidence_out = ConfidenceOfCount(call.length)]
  /\ UNCHANGED <<store, pc, loc, obs, started>>

FnNext ==
  \/ ApplyDetectIntent
  \/ ApplyPlan
  \/ ApplyConfidence

FnSpec == FnInit /\ [][FnNext]_vars

(***************************************************************************)
(* Properties.                                                             *)
(***************************************************************************)
\* The turn numbers of rows, as integers
TurnsOf(rows) == {IntOf(rows[i]["turn"]) : i \in 1..Len(rows)}

\* n is one more than the highest turn number of rows (1 for no rows)
IsFreshTurn(n, rows) ==
  /\ \A m \in TurnsOf(rows) : m < n
  /\ n = 1 \/ (n - 1) \in TurnsOf(rows)

\* How often x occurs in seq
Count(seq, x) == Cardinality({i \in DOMAIN seq : seq[i] = x})

C2_RetrievalOnce ==
  [][/\ (pc[1] = "execute" /\ CurrentStage(1) = "search"
           /\ loc[1].row["search_results"] # "")
        => /\ loc'[1].row = loc[1].row
           /\ obs'[1].search_calls = obs[1].search_calls
           /\ pc'[1] = "execute"
     /\ \A i \in 1..Len(store) :
          store[i]["search_results"] # ""
            => /\ i <= Len(store')
               /\ store'[i]["turn"] = store[i]["turn"]
               /\ store'[i]["search_results"] = store[i]["search_results"]
               /\ store'[i]["search_confidence"] = store[i]["search_confidence"]
    ]_vars

\* C2 witness: a planned search stage was skipped on a persisted turn that
\* already had retrieval output, and the request has saved.
C2_Witness ==
  /\ pc[1] = "done"
  /\ obs[1].search_calls = 0
  /\ Count(loc[1].row["_planned_stages"], "search") > 0
  /\ loc[1].row["search_results"] = "r1"
  /\ \E i \in 1..Len(obs[1].before) :
       /\ obs[1].before[i]["search_results"] = "r1"
       /\ store[i]["search_results"] = "r1"

\* C3: execute_summarize on a turn whose summary is non-empty does nothing
\* (no load of the file, no call of the condensation service, the turn as
\* it was); and a persisted row whose summary is non-empty keeps its place,
\* its turn number and its summary in every later save.
C3_SummaryOnce ==
  [][/\ (pc[1] = "execute" /\ CurrentStage(1) = "summarize"
           /\ loc[1].row["summary"] # "")
        => /\ loc'[1].row = loc[1].row
           /\ obs'[1].summarize_calls = obs[1].summarize_calls
           /\ obs'[1].loads = obs[1].loads
           /\ pc'[1] = "execute"
     /\ \A i \in 1..Len(store) :
          store[i]["summary"] # ""
            => /\ i <= Len(store')
               /\ store'[i]["turn"] = store[i]["turn"]
               /\ store'[i]["summary"] = store[i]["summary"]
               /\ store'[i]["summary_confidence"] = store[i]["summary_confidence"]
    ]_vars

\* C3 witness: a summarize request ran its summarize stage on a persisted
\* turn that already had a summary, and the request has saved.
C3_Witness ==
  /\ pc[1] = "done"
  /\ loc[1].intent = "summarize"
  /\ obs[1].summarize_calls = 0
  /\ Count(loc[1].row["_planned_stages"], "summarize") > 0
  /\ \E i \in 1..Len(obs[1].before) :
       /\ obs[1].before[i]["summary"] = "s1"
       /\ obs[1].before[i]["turn"] = loc[1].row["turn"]
       /\ store[i]["summary"] = "s1"


\* The row a finished request handed to its caller is in the file: a row
\* with its turn number holds the outputs the request returned.
Persisted(row) ==
  \E i \in 1..Len(store) :
    /\ store[i]["turn"] = row["turn"]
    /\ row["search_results"] # "" => store[i]["search_results"] = row["search_results"]
    /\ row["summary"] # "" => store[i]["summary"] = row["summary"]

\* C4: store access is serialized, so that for any interleaving of
\* concurrent requests no update is lost: once all requests have finished,
\* every turn created or updated by a request that returned successfully is
\* in the store with the content that request returned.
C4_NoLostUpdate ==
  (\A p \in Procs : ~Running(p))
    => \A p \in Procs : pc[p] = "done" => Persisted(loc[p].row)

\* C5: for any interleaving of concurrent requests that each create a new
\* turn, no two created turns returned to their callers have the same turn
\* number.
C5_DistinctCreatedTurns ==
  \A p, q \in Procs :
    (p # q /\ pc[p] = "done" /\ pc[q] = "done" /\ obs[p].created /\ obs[q].created)
      => loc[p].row["turn"] # loc[q].row["turn"]

\* No persisted row has retrieval or summary text
NoText(rows) ==
  \A i \in 1..Len(rows) : rows[i]["search_results"] = "" /\ rows[i]["summary"] = ""

\* C7: when the summarize stage runs on a turn with empty summary while no
\* persisted turn has non-empty search_results or summary, the request fails
\* with the no-prior-content error without a call of the condensation
\* service; and a request that failed so has left the file as it was when
\* it began and has saved nothing.
C7_NoPriorContent ==
  [][/\ (pc[1] = "execute" /\ CurrentStage(1) = "summarize"
           /\ loc[1].row["summary"] = "" /\ NoText(store))
        => /\ pc'[1] = "failed"
           /\ loc'[1].error = "NoPriorContentError"
           /\ obs'[1].summarize_calls = obs[1].summarize_calls
           /\ store' = store
     /\ (pc'[1] = "failed" /\ loc'[1].error = "NoPriorContentError")
        => /\ store' = obs'[1].before
           /\ obs'[1].saves = 0
           /\ obs'[1].summarize_calls = 0
    ]_vars

\* C7 witness: a request failed with the no-prior-content error on a file
\* that holds a turn without any text, after its search stage had run.
C7_Witness ==
  /\ pc[1] = "failed"
  /\ loc[1].error = "NoPriorContentError"
  /\ Len(store) = 1
  /\ NoText(store)
  /\ obs[1].search_calls = 1

\* C8: when a call of the retrieval or the condensation service fails
\* during a planned stage, the request fails and saves nothing: the file is
\* as it was when the request began.
C8_ToolFailure ==
  obs[1].failed_calls > 0
    => /\ pc[1] = "failed"
       /\ loc[1].error = "RemoteToolError"
       /\ obs[1].saves = 0
       /\ store = obs[1].before

\* C8 witness: the search stage filled a newly created turn, then the
\* condensation call failed; nothing of the turn is in the file.
C8_Witness ==
  /\ pc[1] = "failed"
  /\ loc[1].error = "RemoteToolError"
  /\ obs[1].created
  /\ obs[1].search_calls = 1
  /\ obs[1].summarize_calls = 1
  /\ Len(store) = 1

\* C9: a conversation_query request appends exactly one row with a fresh
\* turn number, the answer in its summary and no search_results, also when
\* a row with the same query exists; the rows that were in the file are
\* unchanged and in their order; neither the planner nor the retrieval or
\* condensation service is called.
C9_ConversationAppends ==
  (pc[1] = "done" /\ loc[1].intent = "conversation_query")
    => LET before == obs[1].before
           last == store[Len(store)]
       IN /\ Len(store) = Len(before) + 1
          /\ \A i \in 1..Len(before) : store[i] = before[i]
          /\ IsFreshTurn(IntOf(last["turn"]), before)
          /\ last["query"] = loc[1].query
          /\ last["summary"] = loc[1].row["_conversation_response"]
          /\ last["summary"] # ""
          /\ last["search_results"] = ""
          /\ last["search_confidence"] = ""
          /\ obs[1].saves = 1
          /\ obs[1].plan_calls = 0
          /\ obs[1].search_calls = 0
          /\ obs[1].summarize_calls = 0

\* C9 witness: a conversation query whose text equals the query of a
\* persisted turn has been answered.
C9_Witness ==
  /\ pc[1] = "done"
  /\ loc[1].intent = "conversation_query"
  /\ \E i \in 1..Len(obs[1].before) : obs[1].before[i]["query"] = loc[1].query

\* C10: executed_stages holds only the stages that ran in this request: a
\* planned stage whose executor returned early, without a remote call, is
\* not in executed_stages.
C10_ExecutedMeansRan ==
  (pc[1] = "done" /\ loc[1].intent # "conversation_query")
    => /\ Count(loc[1].row["_executed_stages"], "search") = obs[1].search_calls
       /\ Count(loc[1].row["_executed_stages"], "summary") = obs[1].summarize_calls


\* The rows of X that are among the three with the highest turn numbers
NewestThree(rows, X) ==
  {i \in X : Cardinality({j \in X : IntOf(rows[j]["turn"]) > IntOf(rows[i]["turn"])}) < 3}

\* doc and messages are the rows X of rows in ascending turn order, each
\* with its summary if that is non-empty, else with its search_results
FedInOrder(doc, messages, rows, X) ==
  /\ Len(doc) = Cardinality(X)
  /\ Len(messages) = Cardinality(X)
  /\ \A k \in 1..Len(doc) :
       \E i \in X :
         /\ Cardinality({j \in X : IntOf(rows[j]["turn"]) < IntOf(rows[i]["turn"])}) = k - 1
         /\ doc[k].label = k
         /\ doc[k].text = (IF rows[i]["summary"] # "" THEN rows[i]["summary"]
                           ELSE rows[i]["search_results"])
         /\ messages[k].turn = rows[i]["turn"]
         /\ messages[k].query = rows[i]["query"]

\* The summarize stage of the request of thread 1 has called the
\* condensation service and the stage returned
SummarizeRan ==
  /\ pc[1] = "execute"
  /\ obs[1].summarize_calls > 0
  /\ loc[1].summarizing_messages # <<>>

\* C6 as stated: the turns fed to the condensation service are the
\* persisted turns whose search_results or summary is non-empty, the last
\* three of them by turn number, oldest first, each with its summary if
\* non-empty, else its search_results.
C6_SelectionAsStated ==
  SummarizeRan
    => LET rows == obs[1].before
           X == {i \in 1..Len(rows) :
                   rows[i]["search_results"] # "" \/ rows[i]["summary"] # ""}
       IN FedInOrder(obs[1].documents[1], loc[1].summarizing_messages,
                     rows, NewestThree(rows, X))

\* C6 amended: as stated, with "non-empty" read after stripping whitespace:
\* a turn whose texts hold only whitespace is not among the turns selected.
C6_Selection ==
  SummarizeRan
    => LET rows == obs[1].before
           X == {i \in 1..Len(rows) :
                   Strip(rows[i]["search_results"]) # "" \/ Strip(rows[i]["summary"]) # ""}
       IN FedInOrder(obs[1].documents[1], loc[1].summarizing_messages,
                     rows, NewestThree(rows, X))

\* C6 witness: the example of the claim: turns 1..5 of which only 2, 3 and
\* 5 have text; the service was fed turns 2, 3, 5 in that order.
C6_Witness ==
  /\ SummarizeRan
  /\ Len(obs[1].before) = 5
  /\ {i \in 1..5 : obs[1].before[i]["search_results"] # ""
                     \/ obs[1].before[i]["summary"] # ""} = {2, 3, 5}
  /\ Len(loc[1].summarizing_messages) = 3
  /\ [k \in 1..3 |-> loc[1].summarizing_messages[k].turn] = <<"2", "3", "5">>


\* The response of a planner call is of no use: the call failed or its text
\* was not JSON, or the parsed list holds no valid stage name
NoUsablePlan(response) ==
  ~response.ok \/ \A k \in 1..Len(response.stages) :
                    response.stages[k] \notin {"search", "summarize"}

\* C11: whenever the completion call of the planner fails, its response is
\* not JSON, or the parsed list holds no valid stage name,
\* plan_execution_stages returns [search] for intent search, [summarize]
\* for intent summarize and [search] for any other intent; it always
\* returns a plan, never a failure.
C11_PlannerFallback ==
  (call.fn = "plan_execution_stages" /\ call.count > 0)
    => /\ call.plan_out # <<>>
       /\ NoUsablePlan(call.response)
            => call.plan_out = (CASE call.intent = "search" -> <<"search">>
                                  [] call.intent = "summarize" -> <<"summarize">>
                                  [] OTHER -> <<"search">>)

\* C11 witness: the planner call failed for a request with intent
\* summarize, and for one with an intent that is neither search nor
\* summarize the parsed list held only an unknown name.
C11_Witness ==
  /\ call.fn = "plan_execution_stages"
  /\ call.count > 0
  /\ \/ ~call.response.ok /\ call.intent = "summarize"
           /\ call.plan_out = <<"summarize">>
     \/ call.response.ok /\ call.response.stages = <<"review">>
           /\ call.intent = "analyze" /\ call.plan_out = <<"search">>


\* label occurs in text, whatever the case of the letters of text
OccursAnyCase(label, text) == Occurs(label, Lower(text))

\* C12: the intent detect_intent_with_llm returns is always one of search,
\* summarize, conversation_query; it is the first of these, in this order
\* of priority, that occurs in the response of the completion service
\* without regard to case; it is search when none occurs or the call failed.
C12_IntentResolution ==
  (call.fn = "detect_intent_with_llm" /\ call.count > 0)
    => LET text == call.response.text
           out == call.intent_out
       IN /\ out \in {"search", "summarize", "conversation_query"}
          /\ ~call.response.ok => out = "search"
          /\ call.response.ok =>
               IF OccursAnyCase("search", text) THEN out = "search"
               ELSE IF OccursAnyCase("summarize", text) THEN out = "summarize"
               ELSE IF OccursAnyCase("conversation_query", text)
                 THEN out = "conversation_query"
               ELSE out = "search"

\* C12 witness: the response holds two labels in mixed case, the one of
\* lower priority first in the text; the one of higher priority is returned.
C12_Witness ==
  /\ call.fn = "detect_intent_with_llm"
  /\ call.count > 0
  /\ call.response.ok
  /\ call.response.text = "Summarize the search"
  /\ call.intent_out = "search"


\* C13: the conversation-query handler, on an empty history, returns the
\* fixed advisory text with confidence 1.0 and calls the completion service
\* not at all; on a non-empty history it calls the service once and, when
\* the call fails, returns an error text with confidence 0.5 instead of
\* raising, else the answer with the confidence confidence_from_text gives
\* the answer text.
C13_ConversationHandler ==
  (pc[1] = "done" /\ loc[1].intent = "conversation_query")
    => LET text == loc[1].row["_conversation_response"]
           confidence == loc[1].row["summary_confidence"]
       IN IF Len(obs[1].before) = 0
            THEN /\ text = ADVISORY
                 /\ confidence = "1.0"
                 /\ obs[1].answer_calls = 0
                 /\ call.fn = ""
            ELSE /\ obs[1].answer_calls = 1
                 /\ call.fn = "generate_conversation_response"
                 /\ IF call.response.ok
                      THEN /\ text = call.response.text
                           /\ confidence = StrFloat(ConfidenceOfCount(WordCount(text)))
                      ELSE /\ text = CONV_ERROR
                           /\ confidence = "0.5"

\* C13 witness: a conversation query on a file with a turn in it, whose
\* completion call failed, has returned the error text.
C13_Witness ==
  /\ pc[1] = "done"
  /\ loc[1].intent = "conversation_query"
  /\ Len(obs[1].before) > 0
  /\ call.fn = "generate_conversation_response"
  /\ ~call.response.ok
  /\ loc[1].row["_conversation_response"] = CONV_ERROR
  /\ loc[1].row["summary_confidence"] = "0.5"


\* C14: for a text of any number of words (up to MaxWords), the confidence,
\* in hundredths, lies between 40 and 95; it is 40 for the empty text; it
\* is not below the confidence of any text of fewer words, and the
\* confidence of a text of twice the words is not below it; it is the value
\* of two decimals nearest to words / 200 clamped to [0.4, 0.95]; and every
\* call with the same input gives the same value.
C14_Confidence ==
  /\ confidence_from_text("") = 40
  /\ (call.fn = "confidence_from_text" /\ call.count > 0)
       => LET n == call.length
              c == call.confidence_out
          IN /\ 40 <= c /\ c <= 95
             /\ n = 0 => c = 40
             /\ \A m \in 0..n : ConfidenceOfCount(m) <= c
             /\ 2 * n <= MaxWords => ConfidenceOfCount(2 * n) >= c
             /\ IF n <= 80 THEN c = 40
                ELSE IF n >= 190 THEN c = 95
                ELSE 2 * c - n \in {-1, 0, 1}
             /\ c = ConfidenceOfCount(n)

\* C14 witness: a text of 83 words, whose quotient 0.415 lies between two
\* values of two decimals, was scored twice and got 0.41 both times.
C14_Witness ==
  /\ call.fn = "confidence_from_text"
  /\ call.count = 2
  /\ call.length = 83
  /\ call.confidence_out = 41


\* What the request of thread 1 returned as a transient list, <<>> if none
ReturnedList(key) ==
  IF key \in DOMAIN loc[1].row THEN loc[1].row[key] ELSE <<>>

\* The second half of the scenario: a summarize request planned as
\* [summarize] has returned, and the file it found held turn 1 only
SummarizedTurnOne ==
  /\ Len(store) = 1
  /\ store[1]["turn"] = "1"
  /\ store[1]["search_results"] = obs[1].before[1]["search_results"]
  /\ store[1]["summary"] = loc[1].row["summary"]
  /\ loc[1].row["turn"] = "1"
  /\ obs[1].search_calls = 0
  /\ obs[1].summarize_calls = 1
  /\ obs[1].documents =
       <<(<<[label |-> 1, text |-> obs[1].before[1]["search_results"]]>>)>>
  /\ ReturnedList("_executed_stages") = <<"summary">>
  /\ Len(ReturnedList("_summarizing_messages")) = 1
  /\ ReturnedList("_summarizing_messages")[1].turn = "1"

\* The text t is non-empty, as it is or after stripping whitespace
NonEmpty(t, stripped) == IF stripped THEN Strip(t) # "" ELSE t # ""

\* The scenario, for a reading of "the retrieval text is non-empty"
Scenario(stripped) ==
  /\ (/\ pc[1] = "done" /\ loc[1].intent = "search" /\ obs[1].before = <<>>
       /\ ReturnedList("_planned_stages") = <<"search">>
       /\ NonEmpty(loc[1].row["search_results"], stripped))
      => /\ Len(store) = 1
         /\ store[1]["turn"] = "1"
         /\ store[1]["query"] = loc[1].query
         /\ store[1]["search_results"] = loc[1].row["search_results"]
         /\ store[1]["summary"] = ""
         /\ obs[1].search_calls = 1
         /\ ReturnedList("_executed_stages") = <<"search">>
  /\ (/\ pc[1] \in {"plan", "execute", "done"} /\ loc[1].intent = "summarize"
       /\ Len(obs[1].before) = 1
       /\ obs[1].before[1]["turn"] = "1"
       /\ NonEmpty(obs[1].before[1]["search_results"], stripped)
       /\ obs[1].before[1]["summary"] = "")
      => /\ ~obs[1].created
         /\ loc[1].row["turn"] = "1"
         /\ (pc[1] = "done" /\ ReturnedList("_planned_stages") = <<"summarize">>)
              => SummarizedTurnOne

\* C15 as stated: from an empty store, a search request planned as [search]
\* whose retrieval returns a non-empty text leaves exactly one turn, numbered
\* 1, with that text, an empty summary and executed_stages = [search]; a
\* following summarize request planned as [summarize] creates no turn, works
\* on turn 1, feeds the condensation service the one retrieval text, stores
\* the summary in turn 1 and returns executed_stages = [summary] and a
\* summarizing-messages list of one element that names turn 1.
C15_ScenarioAsStated == Scenario(FALSE)

\* C15 amended: as stated, for a retrieval text that is non-empty after
\* stripping whitespace.
C15_Scenario == Scenario(TRUE)

\* C15 witness: the summarize request of the scenario, with a query of its
\* own, has returned a summary of turn 1.
C15_Witness ==
  /\ pc[1] = "done"
  /\ loc[1].intent = "summarize"
  /\ Len(obs[1].before) = 1
  /\ obs[1].before[1]["search_results"] = "r1"
  /\ obs[1].before[1]["summary"] = ""
  /\ obs[1].before[1]["query"] # loc[1].query
  /\ ReturnedList("_planned_stages") = <<"summarize">>
  /\ SummarizedTurnOne
  /\ store[1]["summary"] = "s1"


\* C16: in a request planned as [search, summarize] for a turn that had no
\* retrieval output, the turn that Search filled is in the file before
\* Summarize reads the file: when the summarize stage is about to run after
\* the search stage of the same request has fetched a text, the file holds
\* the turn with that text.
C16_SearchSavedBeforeSummarize ==
  (/\ pc[1] = "execute"
   /\ CurrentStage(1) = "summarize"
   /\ loc[1].row["summary"] = ""
   /\ obs[1].search_calls > 0
   /\ Strip(loc[1].row["search_results"]) # "")
    => \E i \in 1..Len(store) :
         /\ store[i]["turn"] = loc[1].row["turn"]
         /\ store[i]["search_results"] = loc[1].row["search_results"]


\* C17: the merge step of a successful request that is not a conversation
\* query: if a persisted turn has the turn number of the resulting turn, it
\* is replaced at its position, else the resulting turn is appended at the
\* end; every other turn is unchanged and at its position; the file grows by
\* at most one row and never shrinks.
C17_MergeFrame ==
  [][(pc[1] = "execute" /\ pc'[1] = "done")
       => LET row == [k \in FIELDS |-> loc[1].row[k]]
              hits == {i \in 1..Len(store) : store[i]["turn"] = row["turn"]}
          IN /\ Len(store') >= Len(store)
             /\ Len(store') <= Len(store) + 1
             /\ IF hits # {}
                  THEN /\ Len(store') = Len(store)
                       /\ \E i \in hits :
                            /\ store'[i] = row
                            /\ \A j \in 1..Len(store) : j # i => store'[j] = store[j]
                  ELSE /\ Len(store') = Len(store) + 1
                       /\ store'[Len(store')] = row
                       /\ \A j \in 1..Len(store) : store'[j] = store[j]
    ]_vars

\* C17 witness: a request has replaced the first of two persisted turns
\* with a changed turn; the second is as it was.
C17_Witness ==
  /\ pc[1] = "done"
  /\ loc[1].intent # "conversation_query"
  /\ Len(obs[1].before) = 2
  /\ Len(store) = 2
  /\ store[1] # obs[1].before[1]
  /\ store[1]["turn"] = obs[1].before[1]["turn"]
  /\ store[2] = obs[1].before[2]


\* The rows of the file the request of thread 1 found whose query is the
\* query of the request
SameQuery == {i \in 1..Len(obs[1].before) : obs[1].before[i]["query"] = loc[1].query}

\* The request of thread 1 has got its turn and is of the given intent
Resolved(intent) == pc[1] \in {"plan", "execute", "done"} /\ loc[1].intent = intent

\* C18: a request whose intent is neither summarize nor conversation_query
\* and whose query is the query of one or more persisted turns works on the
\* one of them with the highest turn number and creates no turn; if that
\* turn has a non-empty search_results and the plan is [search], the file
\* after the request is the file before it and the retrieval service is not
\* called.  A turn is created only when no persisted turn has the query,
\* and it is created with all output fields empty.
C18_ReuseByQuery ==
  Resolved("search")
    => LET before == obs[1].before
       IN /\ SameQuery # {}
               => /\ ~obs[1].created
                  /\ \E i \in SameQuery :
                       /\ before[i]["turn"] = loc[1].row["turn"]
                       /\ \A j \in SameQuery :
                            IntOf(before[j]["turn"]) <= IntOf(before[i]["turn"])
                       /\ (/\ pc[1] = "done"
                           /\ before[i]["search_results"] # ""
                           /\ ReturnedList("_planned_stages") = <<"search">>)
                          => (store = before /\ obs[1].search_calls = 0)
                  /\ pc[1] = "done" => Len(store) = Len(before)
          /\ obs[1].created <=> SameQuery = {}
          /\ (obs[1].created /\ pc[1] = "plan")
               => /\ \A k \in FIELDS \ {"query", "turn"} : loc[1].row[k] = ""
                  /\ loc[1].row["query"] = loc[1].query

\* C18 witness: two persisted turns have the query of a search request
\* planned as [search]; the request worked on the second, which had a
\* retrieval text, called no service and left the file as it was.
C18_Witness ==
  /\ pc[1] = "done"
  /\ loc[1].intent = "search"
  /\ SameQuery = {1, 2}
  /\ loc[1].row["turn"] = "2"
  /\ obs[1].before[2]["search_results"] # ""
  /\ ReturnedList("_planned_stages") = <<"search">>
  /\ obs[1].search_calls = 0
  /\ store = obs[1].before


\* The turn of the request of thread 1 is the one of the rows X of the file
\* it found that has the highest turn number
WorksOnNewest(X) ==
  \E i \in X :
    /\ obs[1].before[i]["turn"] = loc[1].row["turn"]
    /\ \A j \in X : IntOf(obs[1].before[j]["turn"]) <= IntOf(obs[1].before[i]["turn"])

\* Turn reuse of a summarize request, for a reading of "non-empty"
ReuseForSummarize(stripped) ==
  Resolved("summarize")
    => LET before == obs[1].before
           context == {i \in 1..Len(before) :
                         NonEmpty(before[i]["search_results"], stripped)}
       IN IF context # {}
            THEN /\ ~obs[1].created
                 /\ WorksOnNewest(context)
                 /\ pc[1] = "done" => Len(store) = Len(before)
          ELSE IF SameQuery # {}
            THEN ~obs[1].created /\ WorksOnNewest(SameQuery)
          ELSE obs[1].created

\* C19 as stated: a summarize request, when at least one persisted turn
\* has a non-empty search_results, works on the one of them with the
\* highest turn number, whatever its query, and creates no turn, so that
\* the file keeps its length; only when no persisted turn has retrieval
\* output it works on the newest turn with its query, and creates a turn
\* when there is none.
C19_SummarizeReuseAsStated == ReuseForSummarize(FALSE)

\* C19 amended: as stated, with "non-empty" read after stripping
\* whitespace: a turn whose search_results holds only whitespace does not
\* count as a turn with retrieval output.
C19_SummarizeReuse == ReuseForSummarize(TRUE)

\* C19 witness: two persisted turns have retrieval output; a summarize
\* request with another query than the second turn's worked on the second
\* and the file kept its two rows.
C19_Witness ==
  /\ pc[1] = "done"
  /\ loc[1].intent = "summarize"
  /\ Len(obs[1].before) = 2
  /\ obs[1].before[1]["search_results"] = "r1"
  /\ obs[1].before[2]["search_results"] = "r1"
  /\ obs[1].before[2]["query"] # loc[1].query
  /\ loc[1].row["turn"] = "2"
  /\ Len(store) = 2


\* The name under which the driver records a stage it has run
RecordedAs(stage) == IF stage = "summarize" THEN "summary" ELSE stage

\* seq without the entries that are not stage names, in its order
RECURSIVE ValidOnly(_)
ValidOnly(seq) ==
  IF seq = <<>> THEN <<>>
  ELSE IF Head(seq) \in {"search", "summarize"}
    THEN <<Head(seq)>> \o ValidOnly(Tail(seq))
  ELSE ValidOnly(Tail(seq))

\* C20: for every planner response and intent the plan is a non-empty
\* list of the names search and summarize; when the parsed response holds
\* a valid name, the plan is the parsed list without its invalid entries,
\* in the planner's order and with its repetitions; and the driver runs the
\* executors in the order of the plan, one per step: the stages recorded so
\* far are the first stages of the plan, and all of them once the request
\* has returned.
C20_PlanAndOrder ==
  (pc[1] \in {"execute", "done"} /\ call.fn = "plan_execution_stages")
    => LET returned == pc[1] = "done"
           planned == IF returned THEN ReturnedList("_planned_stages")
                      ELSE loc[1].planned_stages
           executed == IF returned THEN ReturnedList("_executed_stages")
                       ELSE loc[1].executed_stages
           ran == IF returned THEN Len(planned) ELSE loc[1].stage - 1
       IN /\ planned # <<>>
          /\ \A k \in 1..Len(planned) : planned[k] \in {"search", "summarize"}
          /\ (call.response.ok /\ ValidOnly(call.response.stages) # <<>>)
               => planned = ValidOnly(call.response.stages)
          /\ ran <= Len(planned)
          /\ Len(executed) = ran
          /\ \A k \in 1..ran : executed[k] = RecordedAs(planned[k])

\* C20 witness: the planner answered [summarize, search]; the request ran
\* the summarize stage, then the search stage, and returned.
C20_Witness ==
  /\ pc[1] = "done"
  /\ call.fn = "plan_execution_stages"
  /\ call.response.stages = <<"summarize", "search">>
  /\ ReturnedList("_planned_stages") = <<"summarize", "search">>
  /\ ReturnedList("_executed_stages") = <<"summary", "search">>
  /\ obs[1].summarize_calls = 1


\* The legacy fields of a row
LegacyFields ==
  {"reviewed_summary", "review_confidence", "insights", "insights_confidence"}

\* C21: from an empty file (so from a file whose turns all have empty
\* legacy fields), after any sequence of requests every persisted turn has
\* empty reviewed_summary, review_confidence, insights and
\* insights_confidence, and next_state classifies it as INIT, SEARCHED or
\* SUMMARIZED, never as REVIEWED or INSIGHTED.
C21_LegacyNeverWritten ==
  \A i \in 1..Len(store) :
    /\ \A k \in LegacyFields : store[i][k] = ""
    /\ next_state(store[i]) \in {"INIT", "SEARCHED", "SUMMARIZED"}

\* C21 witness: the file holds a turn that was searched and summarized and
\* a turn that was searched only.
C21_Witness ==
  /\ Len(store) = 2
  /\ store[1]["search_results"] = "r1"
  /\ store[1]["summary"] = "s1"
  /\ next_state(store[1]) = "SUMMARIZED"
  /\ store[2]["search_results"] = "r1"
  /\ next_state(store[2]) = "SEARCHED"

\* C22 as stated: every persisted turn whose summary is non-empty and
\* whose reviewed_summary is empty is classified SUMMARIZED, the turns of
\* conversation queries (summary, no search_results) and the turns
\* summarized without a search of their own among them.
C22_SummarizedAsStated ==
  \A i \in 1..Len(store) :
    (store[i]["summary"] # "" /\ store[i]["reviewed_summary"] = "")
      => next_state(store[i]) = "SUMMARIZED"

\* C22 amended: a persisted turn whose summary is non-empty and whose
\* reviewed_summary is empty is classified SUMMARIZED when its
\* search_results is non-empty too; with an empty search_results (the turn
\* of a conversation query, a turn summarized without a search of its own)
\* it is classified INIT.
C22_Summarized ==
  \A i \in 1..Len(store) :
    (store[i]["summary"] # "" /\ store[i]["reviewed_summary"] = "")
      => next_state(store[i]) =
           (IF store[i]["search_results"] # "" THEN "SUMMARIZED" ELSE "INIT")

\* C22 witness: the file holds the turn of a conversation query, which is
\* classified INIT, and a turn summarized without a search of its own,
\* which is classified INIT as well.
C22_Witness ==
  /\ Len(store) = 2
  /\ store[1]["summary"] = ADVISORY
  /\ store[1]["search_results"] = ""
  /\ next_state(store[1]) = "INIT"
  /\ store[2]["summary"] = "s1"
  /\ store[2]["search_results"] = ""
  /\ next_state(store[2]) = "INIT"


\* The rows of the file the request of thread 1 found that have retrieval
\* output a summarize request continues
Continued ==
  {i \in 1..Len(obs[1].before) : Strip(obs[1].before[i]["search_results"]) # ""}

\* No row of rows other than row i has the query q
OnlyAt(rows, i, q) == \A j \in 1..Len(rows) : j # i => rows[j]["query"] # q

\* What a summarize request that continued the newest turn with retrieval
\* output has left in the file; unlessShared: the statement about the old
\* query is made only when no other turn has that query
QueryReplaced(unlessShared) ==
  (pc[1] = "done" /\ loc[1].intent = "summarize" /\ Continued # {})
    => /\ Len(store) = Len(obs[1].before)
       /\ \E i \in Continued :
            LET old == obs[1].before[i]
            IN /\ \A j \in Continued : IntOf(obs[1].before[j]["turn"]) <= IntOf(old["turn"])
               /\ store[i]["query"] = loc[1].query
               /\ store[i]["turn"] = old["turn"]
               /\ store[i]["search_results"] = old["search_results"]
               /\ store[i]["search_confidence"] = old["search_confidence"]
               /\ (/\ old["query"] # loc[1].query
                   /\ unlessShared => OnlyAt(obs[1].before, i, old["query"]))
                    => /\ \A j \in 1..Len(store) : store[j]["query"] # old["query"]
                       /\ get_or_create_row(store, old["query"], "search").created

C24_OneSave ==
  /\ obs[1].saves <= 1
  /\ pc[1] = "done" => obs[1].saves = 1
  /\ pc[1] = "failed" => (obs[1].saves = 0 /\ store = obs[1].before)
  /\ Running(1) => (obs[1].saves = 0 /\ store = obs[1].before)
  /\ \A i \in 1..Len(store) : DOMAIN store[i] = FIELDS

\* C24 witness: a request that ran its summarize stage has returned a row
\* with the transient keys and saved once; the file has none of them.
C24_Witness ==
  /\ pc[1] = "done"
  /\ obs[1].saves = 1
  /\ obs[1].summarize_calls = 1
  /\ {"_summarizing_messages", "_executed_stages", "_planned_stages"}
       \subseteq DOMAIN loc[1].row
  /\ \E i \in 1..Len(store) :
       /\ store[i]["turn"] = loc[1].row["turn"]
       /\ store[i]["summary"] = "s1"
       /\ DOMAIN store[i] = FIELDS

====
